---- MODULE Spec2Model ----
(***************************************************************************)
(* The "supply" sample chaincode (supply.go) and its benchmark driver.     *)
(*                                                                         *)
(* A string is a sequence of one-character strings, so that lower-casing   *)
(* and key construction are computed character by character.  A byte       *)
(* value stored in the world state is a sequence of <<tag, string>>        *)
(* tokens: the JSON encoding of a product is its five tagged fields in     *)
(* declaration order, the index sentinel []byte{0x00} is one token.        *)
(*                                                                         *)
(* The chaincode stub is the host runtime.  It is modelled by what the     *)
(* contract's calls rely on: GetState / PutState on a key-value map,       *)
(* CreateCompositeKey building a key in the U+0000 namespace, a history    *)
(* of the values written per key, and a rich query answered by the state   *)
(* database.  TxId and Timestamp of a history entry are opaque host        *)
(* values and are not modelled.  Under Spec every stub call answers        *)
(* without error; under SpecFault any one stub call of an invocation may   *)
(* return an error, the case the code's `err != nil` branches handle.      *)
(* A PutState takes effect when it is called: the world state is the one   *)
(* the stub's calls have written.  Product ids are simple keys, outside    *)
(* the U+0000 namespace of composite keys.  SpecDriver is the benchmark    *)
(* driver alone: init() and then run() called by the harness.              *)
(***************************************************************************)
EXTENDS Integers, Sequences, FiniteSets, TLC

VARIABLES
    state,      \* the world state: key -> stored bytes
    history,    \* the ledger's history: key -> sequence of written values
    last,       \* the last invocation: function, args, fault, response, writes
    created,    \* id -> the arguments of the initProduct call that succeeded
    transfers,  \* id -> number of transferProduct calls that succeeded
    txIndex,    \* the driver's counter
    bc,         \* the driver's blockchain adapter, <<>> before init
    contx,      \* the driver's context, <<>> before init
    pid,        \* process.pid of the driver's process, <<>> until it is read
    calls,      \* the invocations the driver issued last, most recent last
    runs        \* number of calls of the driver's run()

vars ==
    <<state, history, last, created, transfers, txIndex, bc, contx, pid, calls, runs>>

contractVars == <<state, history, last, created, transfers>>

driverVars == <<txIndex, bc, contx, pid, calls, runs>>

\* ------------------------------------------------------------------ bounds

\* No key is written more than MaxHist times.
MaxHist == 3

\* The driver's run() is called at most MaxTx times.
MaxTx == 60

\* ----------------------------------------------------------------- strings

\* The letters in use that have a lower-case form, and those forms.
Upper == <<"A", "B", "C", "D", "M", "N", "P">>

Lower == <<"a", "b", "c", "d", "m", "n", "p">>

ToLowerChar(c) ==
    IF \E i \in 1..Len(Upper) : Upper[i] = c
    THEN Lower[CHOOSE i \in 1..Len(Upper) : Upper[i] = c]
    ELSE c

\* Variant: the argument is stored as supplied.
ToLowerIdentity(s) == s

\* strings.ToLower
ToLower(s) == [i \in 1..Len(s) |-> ToLowerChar(s[i])]

NUL == "U+0000"

\* The argument values the invocations are drawn from.
IdPool == {<<>>, <<"p", "1">>, <<"P", "1">>}

NamePool == {<<>>, <<"N", "u", "t">>}

TypePool == {<<>>, <<"M", "8">>}

OwnerPool == {<<>>, <<"A", "l">>}

NewOwnerPool == {<<>>, <<"B", "o">>}

ExtraPool == {<<"x">>}

\* Rich queries: a selector on one field, {field:value}, or a malformed string.
QueryPool ==
    { <<>>,
      <<"{", "owner", ":", "b", "o", "}">>,
      <<"{", "docType", ":", "p", "r", "o", "d", "u", "c", "t", "}">> }

\* ASCII order of the characters in use, for the state database's key order.
Alphabet ==
    <<NUL, "0", "1", "8", ":", "A", "B", "C", "D", "M", "N", "P", "_",
      "a", "b", "c", "d", "e", "l", "m", "n", "o", "p", "q", "r", "t", "u",
      "w", "x", "y", "{", "}", "~">>

Rank(c) == CHOOSE i \in 1..Len(Alphabet) : Alphabet[i] = c

RECURSIVE StrLess(_, _)
StrLess(a, b) ==
    IF Len(b) = 0 THEN FALSE
    ELSE IF Len(a) = 0 THEN TRUE
    ELSE IF Rank(a[1]) # Rank(b[1]) THEN Rank(a[1]) < Rank(b[1])
    ELSE StrLess(Tail(a), Tail(b))

RECURSIVE SortKeys(_)
SortKeys(K) ==
    IF K = {} THEN <<>>
    ELSE LET k == CHOOSE x \in K : \A y \in K \ {x} : StrLess(x, y)
         IN  <<k>> \o SortKeys(K \ {k})

\* ------------------------------------------------------- product and JSON

Nil == <<>>

Product(objectType, puid, pname, ptype, owner) ==
    [ObjectType |-> objectType, Puid |-> puid, Pname |-> pname,
     Ptype |-> ptype, Owner |-> owner]

ProductType == <<"p", "r", "o", "d", "u", "c", "t">>

\* json.Marshal of a product: the fields under their json tags, in order.
Marshal(p) ==
    << <<"docType", p.ObjectType>>, <<"puid", p.Puid>>, <<"pname", p.Pname>>,
       <<"ptype", p.Ptype>>, <<"owner", p.Owner>> >>

\* []byte{0x00}
Sentinel == << <<"0x00", <<>>>> >>

IsObject(bytes) == Len(bytes) > 0 /\ \A i \in 1..Len(bytes) : bytes[i][1] # "0x00"

\* The value of member `tag` of a JSON object, "" when the object has none.
Field(bytes, tag) ==
    IF \E i \in 1..Len(bytes) : bytes[i][1] = tag
    THEN bytes[CHOOSE i \in 1..Len(bytes) : bytes[i][1] = tag][2]
    ELSE <<>>

\* json.Unmarshal into a product{}: an error unless the bytes are an object.
Unmarshal(bytes) ==
    [err |-> ~IsObject(bytes),
     product |-> Product(Field(bytes, "docType"), Field(bytes, "puid"),
                         Field(bytes, "pname"), Field(bytes, "ptype"),
                         Field(bytes, "owner"))]

\* ------------------------------------------------------------- responses

Msg(text, arg) == [text |-> text, arg |-> arg]

NoMsg == Msg("", <<>>)

\* err.Error() of an error the stub returned.
StubErr == <<"e", "r", "r">>

Success(payload) == [status |-> "SUCCESS", message |-> NoMsg, payload |-> payload]

Error(msg) == [status |-> "ERROR", message |-> msg, payload |-> Nil]

\* What a handler did: its response and the PutState calls that took effect.
Result(resp, writes) == [resp |-> resp, writes |-> writes]

\* ------------------------------------------------------------------ stub

GetState(st, key) == IF key \in DOMAIN st THEN st[key] ELSE Nil

\* The key is objectType and the attributes, each preceded by U+0000 and
\* the whole closed by U+0000.
CreateCompositeKey(objectType, attributes) ==
    <<NUL>> \o objectType \o <<NUL>> \o attributes[1] \o <<NUL>>
            \o attributes[2] \o <<NUL>>

IndexName == <<"t", "y", "p", "e", "~", "n", "a", "m", "e">>

HistoryOf(h, key) == IF key \in DOMAIN h THEN h[key] ELSE <<>>

\* The state database's answer to a rich query: the documents whose member
\* q[2] has the value between ':' and '}', in key order; an error when the
\* string is no selector.
QueryOk(q) == Len(q) >= 5 /\ q[1] = "{" /\ q[3] = ":" /\ q[Len(q)] = "}"

GetQueryResult(st, q) ==
    LET field == q[2]
        value == SubSeq(q, 4, Len(q) - 1)
        hits == {k \in DOMAIN st : IsObject(st[k]) /\ Field(st[k], field) = value}
        keys == SortKeys(hits)
    IN  [i \in 1..Len(keys) |-> [Key |-> keys[i], Value |-> st[keys[i]]]]

FormatBool(b) == IF b THEN "true" ELSE "false"

Null == << <<"null", <<>>>> >>

\* --------------------------------------------------------------- handlers
\* A handler is computed over the world state `st`, the arguments and the
\* stub call that fails in this invocation (`f`, "none" when none does).

\* Variant: the existence check is skipped.
AlreadyExistsNever(productAsBytes) == FALSE

\* line 122: the key already holds a value

AlreadyExists(productAsBytes) == productAsBytes # Nil

\* Variant: a missing record is not noticed.
NotFoundNever(valAsbytes) == FALSE

\* lines 167, 188: the key holds no value

NotFound(valAsbytes) == valAsbytes = Nil

\* Variant: the transfer overwrites the name as well.
SetOwnerAndName(p, newOwner) == [p EXCEPT !.Owner = newOwner, !.Pname = newOwner]

\* line 197

SetOwner(p, newOwner) == [p EXCEPT !.Owner = newOwner]

initProduct(st, args, f) ==
    IF Len(args) # 4
    THEN Result(Error(Msg("Incorrect number of arguments. Expecting 4", <<>>)), <<>>)
    ELSE IF Len(args[1]) <= 0
    THEN Result(Error(Msg("1st argument must be a non-empty string", <<>>)), <<>>)
    ELSE IF Len(args[2]) <= 0
    THEN Result(Error(Msg("2nd argument must be a non-empty string", <<>>)), <<>>)
    ELSE IF Len(args[3]) <= 0
    THEN Result(Error(Msg("3rd argument must be a non-empty string", <<>>)), <<>>)
    ELSE IF Len(args[4]) <= 0
    THEN Result(Error(Msg("4th argument must be a non-empty string", <<>>)), <<>>)
    ELSE
    LET productUID == args[1]
        pname == ToLower(args[2])
        ptype == ToLower(args[3])
        owner == ToLower(args[4])
        productAsBytes == GetState(st, productUID)
        product == Product(ProductType, productUID, pname, ptype, owner)
        productJSONasBytes == Marshal(product)
        colorNameIndexKey ==
            CreateCompositeKey(IndexName, <<product.Ptype, product.Pname>>)
    IN  IF f = "GetState"
        THEN Result(Error(Msg("Failed to get product: ", StubErr)), <<>>)
        ELSE IF AlreadyExists(productAsBytes)
        THEN Result(Error(Msg("This product already exists: ", productUID)), <<>>)
        ELSE IF f = "PutState"
        THEN Result(Error(Msg("", StubErr)), <<>>)
        ELSE IF f = "CreateCompositeKey"
        THEN Result(Error(Msg("", StubErr)),
                    << <<productUID, productJSONasBytes>> >>)
        ELSE IF f = "PutStateIndex"
        THEN Result(Success(Nil), << <<productUID, productJSONasBytes>> >>)
        ELSE Result(Success(Nil),
                    << <<productUID, productJSONasBytes>>,
                       <<colorNameIndexKey, Sentinel>> >>)

readProduct(st, args, f) ==
    IF Len(args) # 1
    THEN Result(Error(Msg("Incorrect number of arguments. Expecting product ID of the product to query", <<>>)), <<>>)
    ELSE
    LET Puid == args[1]
        valAsbytes == GetState(st, Puid)
    IN  IF f = "GetState"
        THEN Result(Error(Msg("{Error:Failed to get state for }", Puid)), <<>>)
        ELSE IF NotFound(valAsbytes)
        THEN Result(Error(Msg("{Error:Marble does not exist: }", Puid)), <<>>)
        ELSE Result(Success(valAsbytes), <<>>)

transferProduct(st, args, f) ==
    IF Len(args) < 2
    THEN Result(Error(Msg("Incorrect number of arguments. Expecting 2", <<>>)), <<>>)
    ELSE
    LET puid == args[1]
        newOwner == ToLower(args[2])
        productAsBytes == GetState(st, puid)
        parsed == Unmarshal(productAsBytes)
        productToTransfer == SetOwner(parsed.product, newOwner)
        productJSONasBytes == Marshal(productToTransfer)
    IN  IF f = "GetState"
        THEN Result(Error(Msg("Failed to get product:", StubErr)), <<>>)
        ELSE IF NotFound(productAsBytes)
        THEN Result(Error(Msg("Product does not exist", <<>>)), <<>>)
        ELSE IF parsed.err
        THEN Result(Error(Msg("", <<"j", "s", "o", "n">>)), <<>>)
        ELSE IF f = "PutState"
        THEN Result(Error(Msg("", StubErr)), <<>>)
        ELSE Result(Success(Nil), << <<puid, productJSONasBytes>> >>)

\* The JSON array of {Key, Record} members, or the error that ended the loop.
getQueryResultForQueryString(st, queryString, f) ==
    IF f = "GetQueryResult" \/ ~QueryOk(queryString)
    THEN [err |-> TRUE, buffer |-> Nil]
    ELSE LET results == GetQueryResult(st, queryString)
         IN  IF f = "Next" /\ Len(results) > 0
             THEN [err |-> TRUE, buffer |-> Nil]
             ELSE [err |-> FALSE,
                   buffer |-> [i \in 1..Len(results) |->
                                 [Key |-> results[i].Key,
                                  Record |-> results[i].Value]]]

queryProduct(st, args, f) ==
    IF Len(args) < 1
    THEN Result(Error(Msg("Incorrect number of arguments. Expecting 1", <<>>)), <<>>)
    ELSE
    LET queryString == args[1]
        r == getQueryResultForQueryString(st, queryString, f)
    IN  IF r.err
        THEN Result(Error(Msg("", StubErr)), <<>>)
        ELSE Result(Success(r.buffer), <<>>)

\* Variant: the IsDelete test is inverted.
HistoryMemberInverted(response) ==
    [Value |-> IF ~response.IsDelete THEN Null ELSE response.Value,
     IsDelete |-> FormatBool(~response.IsDelete)]

\* lines 304-329: one member of the history array; the value of a deleted
\* key is written as null.
HistoryMember(response) ==
    [Value |-> IF response.IsDelete THEN Null ELSE response.Value,
     IsDelete |-> FormatBool(response.IsDelete)]

\* `h` is the ledger's history.
getHistoryForProduct(h, args, f) ==
    IF Len(args) < 1
    THEN Result(Error(Msg("Incorrect number of arguments. Expecting 1", <<>>)), <<>>)
    ELSE
    LET Puid == args[1]
        entries == HistoryOf(h, Puid)
    IN  IF f = "GetHistoryForKey"
        THEN Result(Error(Msg("", StubErr)), <<>>)
        ELSE IF f = "Next" /\ Len(entries) > 0
        THEN Result(Error(Msg("", StubErr)), <<>>)
        ELSE Result(Success([i \in 1..Len(entries) |-> HistoryMember(entries[i])]),
                    <<>>)

\* Invoke: the dispatch on the function name.
Dispatch(function, st, h, args, f) ==
    IF function = "initProduct" THEN initProduct(st, args, f)
    ELSE IF function = "transferProduct" THEN transferProduct(st, args, f)
    ELSE IF function = "readProduct" THEN readProduct(st, args, f)
    ELSE IF function = "queryProduct" THEN queryProduct(st, args, f)
    ELSE IF function = "getHistoryForProduct" THEN getHistoryForProduct(h, args, f)
    ELSE Result(Error(Msg("Received unknown function invocation", <<>>)), <<>>)

\* ------------------------------------------------------------ the ledger

\* PutState(key, value): the key's value is replaced and the ledger keeps
\* the written value as the key's next history entry.
RECURSIVE PutAll(_, _)
PutAll(st, writes) ==
    IF writes = <<>> THEN st
    ELSE PutAll((writes[1][1] :> writes[1][2]) @@ st, Tail(writes))

RECURSIVE RecordAll(_, _)
RecordAll(h, writes) ==
    IF writes = <<>> THEN h
    ELSE RecordAll(
           (writes[1][1] :> Append(HistoryOf(h, writes[1][1]),
                                   [Value |-> writes[1][2], IsDelete |-> FALSE]))
           @@ h,
           Tail(writes))

Keys(writes) == [i \in 1..Len(writes) |-> writes[i][1]]

\* -------------------------------------------------------------- arguments

\* The argument lists of an operation: the lists of its signature's length,
\* and lists with fewer arguments and with one more.
Shorter(full) == {SubSeq(full, 1, k) : k \in 0..(Len(full) - 1)}

Longer(full) == {full \o <<x>> : x \in ExtraPool}

\* A well-formed call, the one the malformed calls are variations of.
Typical == << <<"p", "1">>, <<"N", "u", "t">>, <<"M", "8">>, <<"A", "l">> >>

NonEmpty(S) == S \ {<<>>}

\* `full` with the arguments at the positions in E replaced by "".
Emptied(full, E) == [i \in 1..Len(full) |-> IF i \in E THEN <<>> ELSE full[i]]

InitArgs ==
    {<<i, n, t, o>> : i \in NonEmpty(IdPool), n \in NonEmpty(NamePool),
                      t \in NonEmpty(TypePool), o \in NonEmpty(OwnerPool)}
    \cup {Emptied(Typical, E) : E \in SUBSET (1..4)}
    \cup Shorter(Typical) \cup Longer(Typical)

TransferArgs ==
    {<<i, o>> : i \in IdPool, o \in NewOwnerPool}
    \cup Shorter(<<Typical[1], <<"B", "o">>>>)
    \cup Longer(<<Typical[1], <<"B", "o">>>>)

KeyArgs == {<<i>> : i \in IdPool} \cup {<<>>} \cup Longer(<<Typical[1]>>)

QueryArgs ==
    {<<q>> : q \in QueryPool} \cup {<<>>}
    \cup Longer(<<<<"{", "owner", ":", "b", "o", "}">>>>)

\* ------------------------------------------------------------- the driver

ID == << <<"1", "q", "2">>, <<"1", "w", "2">>, <<"a", "1", "2">>, <<"d", "d", "4">> >>

owners ==
    << <<"A", "l", "i", "c", "e">>, <<"B", "o", "b">>,
       <<"C", "l", "a", "i", "r", "e">>, <<"D", "a", "v", "i", "d">> >>

BcTypePool == {"fabric-ccp", "fabric"}

PidPool == {7, 4242}

Digit(d) == <<"0", "1", "2", "3", "4", "5", "6", "7", "8", "9">>[d + 1]

\* Number.prototype.toString of a non-negative integer
RECURSIVE NumberToString(_)
NumberToString(n) == IF n < 10 THEN <<Digit(n)>> ELSE NumberToString(n \div 10) \o <<Digit(n % 10)>>

\* Variant: the pool is indexed one place further.
ProductIDWrong(index) == ID[((index + 1) % Len(ID)) + 1]

\* ID[txIndex % ID.length]; a JavaScript array starts at 0

ProductID(index) == ID[(index % Len(ID)) + 1]

ProductOwner(index) == owners[(index % Len(owners)) + 1]

ProductType10(index) == NumberToString(((index % 10) + 1) * 10)

ProductName(index, p) ==
    <<"p", "r", "o", "d", "u", "c", "t", "_">> \o NumberToString(index) \o <<"_">> \o NumberToString(p)

\* The args object run() builds for the adapter.
RunArgs(bcType, index, p) ==
    IF bcType = "fabric-ccp"
    THEN [chaincodeFunction |-> "initProduct",
          chaincodeArguments |-> <<ProductID(index), ProductName(index, p),
                                   ProductType10(index), ProductOwner(index)>>]
    ELSE [verb |-> "initProduct", name |-> ProductName(index, p),
          id |-> ProductID(index), type |-> ProductType10(index),
          owner |-> ProductOwner(index)]

\* ----------------------------------------------------------------- actions

Init ==
    /\ state = <<>>
    /\ history = <<>>
    /\ last = [function |-> "", args |-> <<>>, resp |-> Success(Nil), writes |-> <<>>]
    /\ created = <<>>
    /\ transfers = <<>>
    /\ txIndex = 0
    /\ bc = <<>>
    /\ contx = <<>>
    /\ pid = <<>>
    /\ calls = <<>>
    /\ runs = 0

TransfersOf(id) == IF id \in DOMAIN transfers THEN transfers[id] ELSE 0

\* One invocation of the chaincode: the handler runs, its PutState calls
\* reach the world state and the ledger, and the response is returned.
\* The values of the contract's variables after the invocation.
Outcome(function, args, f, r) ==
    [state |-> PutAll(state, r.writes),
     history |-> RecordAll(history, r.writes),
     last |-> [function |-> function, args |-> args, resp |-> r.resp,
               writes |-> Keys(r.writes)],
     created |-> IF function = "initProduct" /\ r.resp.status = "SUCCESS"
                 THEN (args[1] :> <<args[2], args[3], args[4]>>) @@ created
                 ELSE created,
     transfers |-> IF function = "transferProduct" /\ r.resp.status = "SUCCESS"
                   THEN (args[1] :> TransfersOf(args[1]) + 1) @@ transfers
                   ELSE transfers,
     bounded |-> \A i \in 1..Len(r.writes) :
                    Len(HistoryOf(history, r.writes[i][1])) < MaxHist]

Invoke(function, args, f) ==
    {Outcome(function, args, f, r) :
       r \in {Dispatch(function, state, history, args, f)}}

InitProduct ==
    \E args \in InitArgs : 
      \E o \in Invoke("initProduct", args, "none") :
        /\ o.bounded
        /\ state' = o.state
        /\ history' = o.history
        /\ last' = o.last
        /\ created' = o.created
        /\ transfers' = o.transfers
        /\ UNCHANGED driverVars

TransferProduct ==
    \E args \in TransferArgs : 
      \E o \in Invoke("transferProduct", args, "none") :
        /\ o.bounded
        /\ state' = o.state
        /\ history' = o.history
        /\ last' = o.last
        /\ created' = o.created
        /\ transfers' = o.transfers
        /\ UNCHANGED driverVars

ReadProduct ==
    \E args \in KeyArgs : 
      \E o \in Invoke("readProduct", args, "none") :
        /\ o.bounded
        /\ state' = o.state
        /\ history' = o.history
        /\ last' = o.last
        /\ created' = o.created
        /\ transfers' = o.transfers
        /\ UNCHANGED driverVars

QueryProduct ==
    \E args \in QueryArgs : 
      \E o \in Invoke("queryProduct", args, "none") :
        /\ o.bounded
        /\ state' = o.state
        /\ history' = o.history
        /\ last' = o.last
        /\ created' = o.created
        /\ transfers' = o.transfers
        /\ UNCHANGED driverVars

GetHistoryForProduct ==
    \E args \in KeyArgs : 
      \E o \in Invoke("getHistoryForProduct", args, "none") :
        /\ o.bounded
        /\ state' = o.state
        /\ history' = o.history
        /\ last' = o.last
        /\ created' = o.created
        /\ transfers' = o.transfers
        /\ UNCHANGED driverVars

UnknownFunction ==
    \E args \in {<<Typical[1]>>} : 
      \E o \in Invoke("deleteProduct", args, "none") :
        /\ o.bounded
        /\ state' = o.state
        /\ history' = o.history
        /\ last' = o.last
        /\ created' = o.created
        /\ transfers' = o.transfers
        /\ UNCHANGED driverVars

InitProductFault ==
    \E args \in InitArgs : \E f \in {"GetState", "PutState", "CreateCompositeKey", "PutStateIndex"} :
      \E o \in Invoke("initProduct", args, f) :
        /\ o.bounded
        /\ state' = o.state
        /\ history' = o.history
        /\ last' = o.last
        /\ created' = o.created
        /\ transfers' = o.transfers
        /\ UNCHANGED driverVars

TransferProductFault ==
    \E args \in TransferArgs : \E f \in {"GetState", "PutState"} :
      \E o \in Invoke("transferProduct", args, f) :
        /\ o.bounded
        /\ state' = o.state
        /\ history' = o.history
        /\ last' = o.last
        /\ created' = o.created
        /\ transfers' = o.transfers
        /\ UNCHANGED driverVars

ReadProductFault ==
    \E args \in KeyArgs : \E f \in {"GetState"} :
      \E o \in Invoke("readProduct", args, f) :
        /\ o.bounded
        /\ state' = o.state
        /\ history' = o.history
        /\ last' = o.last
        /\ created' = o.created
        /\ transfers' = o.transfers
        /\ UNCHANGED driverVars

QueryProductFault ==
    \E args \in QueryArgs : \E f \in {"GetQueryResult", "Next"} :
      \E o \in Invoke("queryProduct", args, f) :
        /\ o.bounded
        /\ state' = o.state
        /\ history' = o.history
        /\ last' = o.last
        /\ created' = o.created
        /\ transfers' = o.transfers
        /\ UNCHANGED driverVars

GetHistoryForProductFault ==
    \E args \in KeyArgs : \E f \in {"GetHistoryForKey", "Next"} :
      \E o \in Invoke("getHistoryForProduct", args, f) :
        /\ o.bounded
        /\ state' = o.state
        /\ history' = o.history
        /\ last' = o.last
        /\ created' = o.created
        /\ transfers' = o.transfers
        /\ UNCHANGED driverVars

\* module.exports.init
DriverInit ==
    /\ \E t \in BcTypePool : bc' = <<[bcType |-> t]>>
    /\ contx' = <<"context">>
    /\ UNCHANGED <<txIndex, pid, calls, runs>>
    /\ UNCHANGED contractVars

LastCalls(s) == IF Len(s) > Len(ID) + 1 THEN Tail(s) ELSE s

\* module.exports.run; the harness calls it after init.
Run ==
    /\ bc # <<>>
    /\ txIndex < MaxTx
    /\ txIndex' = txIndex + 1
    /\ runs' = runs + 1
    /\ IF pid = <<>> THEN \E p \in PidPool : pid' = <<p>> ELSE pid' = pid
    /\ calls' = LastCalls(Append(calls,
                   [context |-> contx[1], contractID |-> "supply",
                    version |-> "v1",
                    args |-> RunArgs(bc[1].bcType, txIndex', pid'[1]),
                    timeout |-> 30]))
    /\ UNCHANGED <<bc, contx>>
    /\ UNCHANGED contractVars

Next ==
    \/ InitProduct
    \/ TransferProduct
    \/ ReadProduct
    \/ QueryProduct
    \/ GetHistoryForProduct
    \/ UnknownFunction

NextFault ==
    \/ Next
    \/ InitProductFault
    \/ TransferProductFault
    \/ ReadProductFault
    \/ QueryProductFault
    \/ GetHistoryForProductFault

NextDriver == DriverInit \/ Run

Spec == Init /\ [][Next]_vars

SpecFault == Init /\ [][NextFault]_vars

SpecDriver == Init /\ [][NextDriver]_vars

\* ================================================================ claims

\* The lower-case forms of the argument values, written out.
Lowered(s) ==
    IF s = <<"N", "u", "t">> THEN <<"n", "u", "t">>
    ELSE IF s = <<"M", "8">> THEN <<"m", "8">>
    ELSE IF s = <<"A", "l">> THEN <<"a", "l">>
    ELSE IF s = <<"B", "o">> THEN <<"b", "o">>
    ELSE s

\* The index keys of a world state: the keys in the U+0000 namespace.
IndexKeys(st) == {k \in DOMAIN st : Len(k) > 0 /\ k[1] = NUL}

AllNonEmpty(args) == \A i \in 1..Len(args) : args[i] # <<>>

\* The step is an initProduct call with four arguments on an id whose
\* creation succeeded before.
RepeatedInit ==
    /\ last'.function = "initProduct"
    /\ Len(last'.args) = 4
    /\ last'.args[1] \in DOMAIN created

RepeatedInitChangesNothing ==
    /\ last'.resp.status = "ERROR"
    /\ GetState(state', last'.args[1]) = GetState(state, last'.args[1])
    /\ IndexKeys(state') = IndexKeys(state)
    /\ state' = state

\* C1 as stated: every later initProduct on a created id fails with the
\* "already exists" message, whatever its name, type and owner, and leaves
\* the record and the index keys as they were.
C1_AlwaysAlreadyExists ==
    [][RepeatedInit =>
         /\ RepeatedInitChangesNothing
         /\ last'.resp.message = Msg("This product already exists: ", last'.args[1])
      ]_vars

\* C1 amended: every later initProduct on a created id fails and leaves the
\* record and the index keys as they were; the message is "already exists"
\* when name, type and owner are non-empty, and the "must be a non-empty
\* string" message of the first empty argument otherwise.
C1_RepeatedInitFails ==
    [][RepeatedInit =>
         /\ RepeatedInitChangesNothing
         /\ AllNonEmpty(last'.args) =>
              last'.resp.message = Msg("This product already exists: ", last'.args[1])
         /\ last'.args[2] = <<>> =>
              last'.resp.message.text = "2nd argument must be a non-empty string"
         /\ (last'.args[2] # <<>> /\ last'.args[3] = <<>>) =>
              last'.resp.message.text = "3rd argument must be a non-empty string"
         /\ (last'.args[2] # <<>> /\ last'.args[3] # <<>> /\ last'.args[4] = <<>>) =>
              last'.resp.message.text = "4th argument must be a non-empty string"
      ]_vars

C1_Witness ==
    /\ last.function = "initProduct"
    /\ Len(last.args) = 4
    /\ last.args[1] \in DOMAIN created
    /\ last.resp.status = "ERROR"
    /\ last.resp.message.text = "This product already exists: "
    /\ last.args[1] = <<"P", "1">>
    /\ DOMAIN created = {<<"p", "1">>, <<"P", "1">>}

\* C2: transferProduct(id, newOwner) and readProduct(id) on an id that holds
\* no record fail, and the world state after the call is the one before it.
C2_MissingRecordFails ==
    [][(/\ \/ last'.function = "transferProduct" /\ Len(last'.args) = 2
           \/ last'.function = "readProduct" /\ Len(last'.args) = 1
        /\ last'.args[1] \notin DOMAIN state)
       => /\ last'.resp.status = "ERROR"
          /\ state' = state
          /\ last'.args[1] \notin DOMAIN state'
          /\ last'.writes = <<>>
      ]_vars

C2_Witness ==
    /\ last.function = "transferProduct"
    /\ Len(last.args) = 2
    /\ last.args[1] = <<"P", "1">>
    /\ last.args[1] \notin DOMAIN state
    /\ <<"p", "1">> \in DOMAIN state
    /\ last.resp.status = "ERROR"
    /\ last.resp.message.text = "Product does not exist"

\* C3: after a successful initProduct(id, name, type, owner) and no transfer
\* of id, readProduct(id) succeeds and returns the record with puid = id as
\* supplied, docType "product" and name, type, owner lower-cased.
C3_ReadBack ==
    (/\ last.function = "readProduct"
     /\ Len(last.args) = 1
     /\ last.args[1] \in DOMAIN created
     /\ TransfersOf(last.args[1]) = 0)
    => /\ last.resp.status = "SUCCESS"
       /\ last.resp.payload =
            << <<"docType", <<"p", "r", "o", "d", "u", "c", "t">>>>,
               <<"puid", last.args[1]>>,
               <<"pname", Lowered(created[last.args[1]][1])>>,
               <<"ptype", Lowered(created[last.args[1]][2])>>,
               <<"owner", Lowered(created[last.args[1]][3])>> >>

C3_Witness ==
    /\ last.function = "readProduct"
    /\ last.args = <<<<"P", "1">>>>
    /\ last.args[1] \in DOMAIN created
    /\ created[last.args[1]] = <<<<"N", "u", "t">>, <<"M", "8">>, <<"A", "l">>>>
    /\ TransfersOf(last.args[1]) = 0
    /\ last.resp.status = "SUCCESS"
    /\ Field(last.resp.payload, "puid") = <<"P", "1">>
    /\ Field(last.resp.payload, "pname") = <<"n", "u", "t">>

\* The members of a stored record other than its owner.
Identity(bytes) ==
    <<Field(bytes, "docType"), Field(bytes, "puid"), Field(bytes, "pname"),
      Field(bytes, "ptype")>>

\* Every stored record has the docType, puid, pname and ptype of the first
\* value written under its key.
FixedAtCreation ==
    \A k \in DOMAIN state \ IndexKeys(state) :
        /\ Len(HistoryOf(history, k)) > 0
        /\ Identity(state[k]) = Identity(history[k][1].Value)
        /\ Field(state[k], "puid") = k

\* C4: a successful transferProduct(id, newOwner) sets the owner of id's
\* record to the lower-cased newOwner and changes nothing else: not the
\* other members of the record, no other key's record, no index key; so the
\* puid, pname and ptype of a stored record are those of its creation.
C4_TransferChangesOwnerOnly ==
    [][(last'.function = "transferProduct" /\ last'.resp.status = "SUCCESS")
       => /\ DOMAIN state' = DOMAIN state
          /\ last'.args[1] \in DOMAIN state
          /\ \A k \in DOMAIN state \ {last'.args[1]} : state'[k] = state[k]
          /\ IndexKeys(state') = IndexKeys(state)
          /\ Field(state'[last'.args[1]], "owner") = Lowered(last'.args[2])
          /\ Identity(state'[last'.args[1]]) = Identity(state[last'.args[1]])
          /\ Len(state'[last'.args[1]]) = Len(state[last'.args[1]])
          /\ FixedAtCreation'
      ]_vars

C4_Witness ==
    /\ last.function = "transferProduct"
    /\ last.args = <<<<"p", "1">>, <<"B", "o">>>>
    /\ last.resp.status = "SUCCESS"
    /\ <<"P", "1">> \in DOMAIN state
    /\ Field(state[<<"p", "1">>], "owner") = <<"b", "o">>
    /\ Field(state[<<"P", "1">>], "owner") = <<"a", "l">>
    /\ Field(state[<<"p", "1">>], "pname") = <<"n", "u", "t">>

\* C5: no operation deletes a record: an id whose initProduct succeeded holds
\* a record in every later state, so readProduct(id) succeeds; and the
\* history getHistoryForProduct reports for it has one entry for the creation
\* and one per successful transferProduct, in the order of the writes, none
\* marked IsDelete.
C5_NeverDeleted ==
    /\ \A id \in DOMAIN created :
         /\ id \in DOMAIN state
         /\ IsObject(state[id])
         /\ Len(HistoryOf(history, id)) = 1 + TransfersOf(id)
    /\ (/\ last.function = "readProduct"
        /\ Len(last.args) = 1
        /\ last.args[1] \in DOMAIN created)
       => last.resp.status = "SUCCESS"
    /\ (/\ last.function = "getHistoryForProduct"
        /\ Len(last.args) = 1
        /\ last.args[1] \in DOMAIN created)
       => /\ last.resp.status = "SUCCESS"
          /\ Len(last.resp.payload) = 1 + TransfersOf(last.args[1])
          /\ \A i \in 1..Len(last.resp.payload) :
                /\ last.resp.payload[i].IsDelete = "false"
                /\ last.resp.payload[i].Value = history[last.args[1]][i].Value
          /\ last.resp.payload[Len(last.resp.payload)].Value = state[last.args[1]]
          /\ Field(last.resp.payload[1].Value, "owner")
               = Lowered(created[last.args[1]][3])

C5_Witness ==
    /\ last.function = "getHistoryForProduct"
    /\ last.args = <<<<"p", "1">>>>
    /\ <<"p", "1">> \in DOMAIN created
    /\ TransfersOf(<<"p", "1">>) = 2
    /\ last.resp.status = "SUCCESS"
    /\ Len(last.resp.payload) = 3
    /\ Field(last.resp.payload[2].Value, "owner") = <<"b", "o">>
    /\ Field(last.resp.payload[3].Value, "owner") = <<>>

\* The number of arguments in each operation's signature.
Arity(function) ==
    IF function = "initProduct" THEN 4
    ELSE IF function = "transferProduct" THEN 2
    ELSE 1

Operations ==
    {"initProduct", "transferProduct", "readProduct", "queryProduct",
     "getHistoryForProduct"}

\* C6: each of the five operations, called with fewer or more arguments than
\* its signature has, fails and leaves the world state unchanged.
C6_WrongArgumentCountFails ==
    [][(last'.function \in Operations /\ Len(last'.args) # Arity(last'.function))
       => (last'.resp.status = "ERROR" /\ state' = state)
      ]_vars

\* C7: every stored product record has a non-empty pname, ptype and owner.
C7_FieldsNonEmpty ==
    \A k \in DOMAIN state \ IndexKeys(state) :
        /\ Field(state[k], "pname") # <<>>
        /\ Field(state[k], "ptype") # <<>>
        /\ Field(state[k], "owner") # <<>>

\* C8: an invocation that returns a failure response has issued no write.
C8_FailureWritesNothing ==
    last.resp.status = "ERROR" => last.writes = <<>>

\* The index entry of a stored record: the composite key of its lower-cased
\* type and name under "type~name".
IndexKeyOf(bytes) ==
    <<NUL, "t", "y", "p", "e", "~", "n", "a", "m", "e", NUL>>
      \o Field(bytes, "ptype") \o <<NUL>> \o Field(bytes, "pname") \o <<NUL>>

\* C10: when initProduct returns success the index key of (type, name) is in
\* the world state with the value 0x00, and every stored product record has
\* its index entry.
C10_IndexComplete ==
    /\ (last.function = "initProduct" /\ last.resp.status = "SUCCESS")
       => /\ IndexKeyOf(state[last.args[1]]) \in DOMAIN state
          /\ state[IndexKeyOf(state[last.args[1]])] = << <<"0x00", <<>>>> >>
    /\ \A k \in DOMAIN state \ IndexKeys(state) :
          IndexKeyOf(state[k]) \in DOMAIN state

\* The arguments of an invocation run() issued, in either shape.
CallArgs(c) ==
    IF "chaincodeArguments" \in DOMAIN c.args
    THEN [function |-> c.args.chaincodeFunction,
          id |-> c.args.chaincodeArguments[1],
          type |-> c.args.chaincodeArguments[3],
          owner |-> c.args.chaincodeArguments[4]]
    ELSE [function |-> c.args.verb, id |-> c.args.id, type |-> c.args.type,
          owner |-> c.args.owner]

\* The decimal text of 10, 20, ..., 100.
Tens ==
    << <<"1", "0">>, <<"2", "0">>, <<"3", "0">>, <<"4", "0">>, <<"5", "0">>,
       <<"6", "0">>, <<"7", "0">>, <<"8", "0">>, <<"9", "0">>,
       <<"1", "0", "0">> >>

\* The number of the run() call that issued calls[i].
CallNumber(i) == runs - (Len(calls) - i)

Min(a, b) == IF a < b THEN a ELSE b

\* C9: the k-th run() issues one initProduct invocation of contract 'supply'
\* with id ID[k mod 4], owner owners[k mod 4] and type ((k mod 10) + 1) * 10;
\* ids and owners recur with period 4, any 4 consecutive calls use all 4 of
\* each, and txIndex grows by one per call.
C9_DriverCycles ==
    /\ txIndex = runs
    /\ Len(calls) = Min(runs, 5)
    /\ \A i \in 1..Len(calls) :
         LET k == CallNumber(i)
             a == CallArgs(calls[i])
         IN  /\ calls[i].contractID = "supply"
             /\ a.function = "initProduct"
             /\ a.id = ID[(k % 4) + 1]
             /\ a.owner = owners[(k % 4) + 1]
             /\ a.type = Tens[(k % 10) + 1]
    /\ \A i \in 1..Len(calls) : \A j \in 1..Len(calls) :
         (j = i + 4) => /\ CallArgs(calls[i]).id = CallArgs(calls[j]).id
                        /\ CallArgs(calls[i]).owner = CallArgs(calls[j]).owner
    /\ \A i \in 1..Len(calls) :
         (i + 3 <= Len(calls)) =>
            /\ {CallArgs(calls[j]).id : j \in i..(i + 3)}
                 = {ID[n] : n \in 1..Len(ID)}
            /\ {CallArgs(calls[j]).owner : j \in i..(i + 3)}
                 = {owners[n] : n \in 1..Len(owners)}
            /\ Cardinality({CallArgs(calls[j]).id : j \in i..(i + 3)}) = 4

C9_Witness ==
    /\ runs = 12
    /\ Len(calls) = 5
    /\ CallArgs(calls[5]).id = <<"1", "q", "2">>
    /\ CallArgs(calls[5]).owner = <<"A", "l", "i", "c", "e">>
    /\ CallArgs(calls[5]).type = <<"3", "0">>
    /\ CallArgs(calls[4]).id = <<"d", "d", "4">>

====
